---- MODULE Spec2Model ----
(***************************************************************************)
(* A model of the pyshepherd sequencing backend: the clip playback state   *)
(* machine and its per-slice event intersection (backend/clip.py), the     *)
(* track's clip array (backend/track.py) and the session's scene dispatch  *)
(* (backend/session.py), the musical context driven by wall-clock readings *)
(* (backend/musical_context.py), the sequencer's processing thread beside  *)
(* the WebSocket server's thread (backend/sequencer.py,                    *)
(* server/websocket_server.py) and a hardware device                       *)
(* (backend/hardware_device.py).                                           *)
(*                                                                         *)
(* Beats are integers (one unit = one beat).  A chance and a random draw   *)
(* are integers k standing for k / ChanceScale, so that a draw r ranges    *)
(* over 0 .. ChanceScale-1 (random.random() is in [0, 1)) and a chance     *)
(* over 0 .. ChanceScale.  Track and scene indices are 0-based as in the   *)
(* source.                                                                 *)
(***************************************************************************)
EXTENDS Integers, Sequences, FiniteSets, TLC

VARIABLES
    clips,   \* clips[t][c]: the Clip of track t in scene slot c
    sent,    \* the messages handed to Track.send_midi_message by the last call, in order
    last,    \* the last call: its name, its arguments, and the state it started from
    ctx,     \* Sequencer.musical_context
    now,     \* the value time.time() returns
    seq,     \* Sequencer.session being set, and where the processing thread is in its tick
    dev,     \* a HardwareDevice
    session, \* Sequencer.session: its num_tracks and num_scenes
    tracks,  \* tracks[t]: the hardware routing of track t of the session
    devices, \* Sequencer.hardware_devices.devices, by short name
    client   \* a ShepherdBackendControllerApp, its connection and its monitor thread

vars == <<clips, sent, last, ctx, now, seq, dev, session, tracks, devices, client>>

(******************************* bounds ************************************)
NumTracks == 2
NumScenes == 2
MaxEvents == 1
MaxSliceBeats == 4
GridSliceBeats == 2
ChanceScale == 2

MaxTime == 2
MaxPlayheadBeats == 4

(**************************** program constants ****************************)
DefaultLengthBeats == 4
DefaultChance == ChanceScale
DefaultBpm == 120
DefaultMeter == 4
DefaultSampleRate == 44100
SecondsPerMinute == 60
MidiDataMax == 127

Tracks == 0 .. (NumTracks - 1)
Scenes == 0 .. (NumScenes - 1)
SceneArgs == (0 - 1) .. NumScenes
Timestamps == {0, 1, 2}
Durations == {1, 2}
Notes == {60}
Velocities == {100}
Channels == {1}
Chances == {0, ChanceScale}
Draws == 0 .. (ChanceScale - 1)
Lengths == {0, 2, DefaultLengthBeats}
SliceStarts == {0, 1}
SliceLengths == 0 .. MaxSliceBeats

(***************************** SequenceEvent *******************************)
SequenceEvent(timestamp, note, velocity, duration, channel) ==
    [timestamp |-> timestamp, note |-> note, velocity |-> velocity,
     duration |-> duration, channel |-> channel, chance |-> DefaultChance]

(********************************* Clip ************************************)
\* quantization_step is held in quarter beats, so that the default of a
\* quarter of a beat is the whole number 1; every other length is in beats.
QuarterBeatsPerBeat == 4
DefaultQuantizationStep == 1

NewClip ==
    [is_playing |-> FALSE, is_recording |-> FALSE, playhead_position_beats |-> 0,
     length_beats |-> DefaultLengthBeats,
     quantization_step |-> DefaultQuantizationStep,
     wrap_events_across_loop |-> TRUE,
     sequence_events |-> <<>>]

ClipPlay(clip) ==
    [clip EXCEPT !.is_playing = TRUE, !.playhead_position_beats = 0]

ClipStop(clip) ==
    [clip EXCEPT !.is_playing = FALSE, !.playhead_position_beats = 0]

ClipTogglePlayStop(clip) ==
    IF clip.is_playing THEN ClipStop(clip) ELSE ClipPlay(clip)

ClipStartRecording(clip) ==
    LET rec == [clip EXCEPT !.is_recording = TRUE]
    IN  IF ~rec.is_playing THEN ClipPlay(rec) ELSE rec

ClipStopRecording(clip) ==
    [clip EXCEPT !.is_recording = FALSE]

EventIntersectsSlice(event_start, event_end, slice_start, slice_end) ==
    ~(event_end <= slice_start \/ event_start >= slice_end)

\* The end of an event as _generate_midi_for_slice compares it with the slice.
EventEnd(clip, event) ==
    LET event_end == event.timestamp + event.duration
    IN  IF clip.wrap_events_across_loop /\ event_end > clip.length_beats
        THEN event_end % clip.length_beats
        ELSE event_end

\* Event i of the clip reaches _send_midi_for_event for the slice [s, e).
EventReachesSend(clip, i, s, e) ==
    LET event == clip.sequence_events[i]
    IN  /\ ~(clip.wrap_events_across_loop /\ event.timestamp >= clip.length_beats)
        /\ EventIntersectsSlice(event.timestamp, EventEnd(clip, event), s, e)

NoteOn(event, i) ==
    [type |-> "note_on", channel |-> event.channel - 1, note |-> event.note,
     velocity |-> event.velocity, event |-> i]

NoteOff(event, i) ==
    [type |-> "note_off", channel |-> event.channel - 1, note |-> event.note,
     velocity |-> 0, event |-> i]

\* _send_midi_for_event with the chance test inverted.
SendMidiForEvent_ChanceInverted(event, i, r) ==
    IF r < event.chance THEN <<>> ELSE <<NoteOn(event, i), NoteOff(event, i)>>

\* r is the value random.random() returns.
SendMidiForEvent(event, i, r) ==
    IF r > event.chance THEN <<>> ELSE <<NoteOn(event, i), NoteOff(event, i)>>

\* mido.Message('note_on' or 'note_off', channel, note, velocity) raises
\* ValueError for a channel outside 0 .. 15 or a data byte outside 0 .. 127.
NoteMessageRaises(event) ==
    \/ event.channel - 1 \notin 0 .. 15
    \/ event.note \notin 0 .. MidiDataMax
    \/ event.velocity \notin 0 .. MidiDataMax

\* The messages sent for the events from the i-th on; the loop ends, by the
\* exception, at the first event that passes its chance test and whose message
\* mido refuses to build.
RECURSIVE GenerateFrom(_, _, _, _, _)
GenerateFrom(clip, s, e, draws, i) ==
    IF i > Len(clip.sequence_events) THEN <<>>
    ELSE IF /\ EventReachesSend(clip, i, s, e)
            /\ ~(draws[i] > clip.sequence_events[i].chance)
            /\ NoteMessageRaises(clip.sequence_events[i])
    THEN <<>>
    ELSE (IF EventReachesSend(clip, i, s, e)
          THEN SendMidiForEvent(clip.sequence_events[i], i, draws[i])
          ELSE <<>>) \o GenerateFrom(clip, s, e, draws, i + 1)

GenerateMidiForSlice(clip, s, e, draws) == GenerateFrom(clip, s, e, draws, 1)

\* process_slice wrapping the playhead by one subtraction of the length.
ClipProcessSlice_SubtractLength(clip, s, e, draws) ==
    IF ~clip.is_playing THEN [clip |-> clip, out |-> <<>>]
    ELSE LET slice_length == e - s
             advanced == [clip EXCEPT !.playhead_position_beats = @ + slice_length]
         IN  IF advanced.playhead_position_beats >= advanced.length_beats
             THEN IF advanced.wrap_events_across_loop
                  THEN LET wrapped == [advanced EXCEPT !.playhead_position_beats =
                                           @ - advanced.length_beats]
                       IN  [clip |-> wrapped,
                            out |-> GenerateMidiForSlice(wrapped, s, e, draws)]
                  ELSE [clip |-> ClipStop(advanced), out |-> <<>>]
             ELSE [clip |-> advanced, out |-> GenerateMidiForSlice(advanced, s, e, draws)]

\* process_slice testing the end of the clip with > in place of >=.
ClipProcessSlice_StrictEnd(clip, s, e, draws) ==
    IF ~clip.is_playing THEN [clip |-> clip, out |-> <<>>]
    ELSE LET slice_length == e - s
             advanced == [clip EXCEPT !.playhead_position_beats = @ + slice_length]
         IN  IF advanced.playhead_position_beats > advanced.length_beats
             THEN IF advanced.wrap_events_across_loop
                  THEN LET wrapped == [advanced EXCEPT !.playhead_position_beats =
                                           @ % advanced.length_beats]
                       IN  [clip |-> wrapped,
                            out |-> GenerateMidiForSlice(wrapped, s, e, draws)]
                  ELSE [clip |-> ClipStop(advanced), out |-> <<>>]
             ELSE [clip |-> advanced, out |-> GenerateMidiForSlice(advanced, s, e, draws)]

\* process_slice taking a playhead that reached the end back to the start.
ClipProcessSlice_WrapsToStart(clip, s, e, draws) ==
    IF ~clip.is_playing THEN [clip |-> clip, out |-> <<>>]
    ELSE LET slice_length == e - s
             advanced == [clip EXCEPT !.playhead_position_beats = @ + slice_length]
         IN  IF advanced.playhead_position_beats >= advanced.length_beats
             THEN IF advanced.wrap_events_across_loop
                  THEN LET wrapped == [advanced EXCEPT !.playhead_position_beats = 0]
                       IN  [clip |-> wrapped,
                            out |-> GenerateMidiForSlice(wrapped, s, e, draws)]
                  ELSE [clip |-> ClipStop(advanced), out |-> <<>>]
             ELSE [clip |-> advanced, out |-> GenerateMidiForSlice(advanced, s, e, draws)]

\* Clip.process_slice((s, e)): the clip afterwards and the messages it sent.
ClipProcessSlice(clip, s, e, draws) ==
    IF ~clip.is_playing THEN [clip |-> clip, out |-> <<>>]
    ELSE LET slice_length == e - s
             advanced == [clip EXCEPT !.playhead_position_beats = @ + slice_length]
         IN  IF advanced.playhead_position_beats >= advanced.length_beats
             THEN IF advanced.wrap_events_across_loop
                  THEN LET wrapped == [advanced EXCEPT !.playhead_position_beats =
                                           @ % advanced.length_beats]
                       IN  [clip |-> wrapped,
                            out |-> GenerateMidiForSlice(wrapped, s, e, draws)]
                  ELSE [clip |-> ClipStop(advanced), out |-> <<>>]
             ELSE [clip |-> advanced, out |-> GenerateMidiForSlice(advanced, s, e, draws)]

\* The events for which process_slice((s, e)) calls random.random() when it
\* reaches _generate_midi_for_slice.
RandomDraws(clip, s, e) ==
    {i \in 1 .. Len(clip.sequence_events) : EventReachesSend(clip, i, s, e)}

ClipAddNoteEvent(clip, timestamp, note, velocity, duration, channel) ==
    [clip EXCEPT !.sequence_events =
        Append(@, SequenceEvent(timestamp, note, velocity, duration, channel))]

ClipSetLength(clip, length_beats) ==
    IF length_beats > 0 THEN [clip EXCEPT !.length_beats = length_beats] ELSE clip

\* Python's round(n / d) for whole n and d # 0: the nearest whole number, a
\* tie going to the even one.
PyRound_Floor(n, d) ==
    IF d < 0 THEN (0 - n) \div (0 - d) ELSE n \div d

PyRound(n, d) ==
    LET num == IF d < 0 THEN 0 - n ELSE n
        den == IF d < 0 THEN 0 - d ELSE d
        q == num \div den
        r == num % den
    IN  IF 2 * r < den THEN q
        ELSE IF 2 * r > den THEN q + 1
        ELSE IF q % 2 = 0 THEN q ELSE q + 1

QuantizedEvents(events, quantization_step) ==
    [j \in 1 .. Len(events) |->
        [events[j] EXCEPT !.timestamp =
            PyRound(@, quantization_step) * quantization_step]]

\* The step is stored first; a step of 0 then divides by zero at the first
\* event, which ends the call with ZeroDivisionError.
ClipQuantizeEvents(clip, quantization_step) ==
    LET stored == [clip EXCEPT !.quantization_step =
                      quantization_step * QuarterBeatsPerBeat]
        events == clip.sequence_events
    IN  IF quantization_step = 0
        THEN [clip |-> stored, raised |-> events # <<>>]
        ELSE [clip |-> [stored EXCEPT !.sequence_events =
                           QuantizedEvents(events, quantization_step)],
              raised |-> FALSE]

(***************************** MusicalContext ******************************)
\* Times are whole seconds and tempos whole multiples of 60 beats per minute,
\* so that elapsed_seconds * (bpm / 60.0) is a whole number of beats.
Times == 0 .. MaxTime
BpmArgs == {0 - 60, 0, 60}
MeterArgs == {0 - 1, 0, 3}

\* MusicalContext() constructed when time.time() returns t.
NewMusicalContext(t) ==
    [bpm |-> DefaultBpm, meter |-> DefaultMeter, metronome_on |-> FALSE,
     playhead_position_beats |-> 0, is_playing |-> FALSE, doing_count_in |-> FALSE,
     count_in_position_beats |-> 0, sample_rate |-> DefaultSampleRate, bar_count |-> 0,
     last_update_time |-> t]

\* set_bpm accepting 0.
MusicalContextSetBpm_AcceptsZero(c, bpm) ==
    IF bpm >= 0 THEN [c EXCEPT !.bpm = bpm] ELSE c

MusicalContextSetBpm(c, bpm) ==
    IF bpm > 0 THEN [c EXCEPT !.bpm = bpm] ELSE c

MusicalContextSetMeter(c, meter) ==
    IF meter > 0 THEN [c EXCEPT !.meter = meter] ELSE c

\* set_playing leaving the wall-clock reference as it is.
MusicalContextSetPlaying_KeepsReference(c, playing, t) ==
    [c EXCEPT !.is_playing = playing]

\* set_playing(playing) when time.time() returns t.
MusicalContextSetPlaying(c, playing, t) ==
    IF playing
    THEN [c EXCEPT !.is_playing = TRUE, !.last_update_time = t]
    ELSE [c EXCEPT !.is_playing = FALSE]

MusicalContextSetMetronome(c, enabled) ==
    [c EXCEPT !.metronome_on = enabled]

\* elapsed_seconds * (bpm / 60.0) for the reading t of the clock.
ElapsedBeats(c, t) ==
    ((t - c.last_update_time) * c.bpm) \div SecondsPerMinute

\* get_current_slice_range when time.time() returns t: the context afterwards
\* and the pair returned.
MusicalContextGetCurrentSliceRange(c, t) ==
    IF c.is_playing
    THEN LET start_position == c.playhead_position_beats
             end_position == start_position + ElapsedBeats(c, t)
         IN  [ctx |-> [c EXCEPT !.playhead_position_beats = end_position,
                                !.last_update_time = t],
              range |-> <<start_position, end_position>>]
    ELSE [ctx |-> c, range |-> <<c.playhead_position_beats, c.playhead_position_beats>>]

\* reset_playhead when time.time() returns t.
MusicalContextResetPlayhead(c, t) ==
    [c EXCEPT !.playhead_position_beats = 0, !.bar_count = 0, !.last_update_time = t]

(******************************* Sequencer *********************************)
\* Sequencer() and its processing thread between two ticks.  session is
\* "self.session is not None", is_running the flag start() sets, joining tells that stop() waits in join(),
\* and pc is "done" once _processing_loop has returned; during a tick next_track is the index of the next
\* track of the for loop, slice_range the pair the tick computed, and stale
\* tells that self.session was replaced since the loop took its tracks.
\* threads counts the threads that are inside _processing_loop, pc being the
\* position of the one that ticks; loop_time is the clock reading at which the
\* loop next wakes, in units of half a slice duration from the start of the
\* loop, and ticks the number of passes of the loop so far.
Cadence == 2
MaxTicks == 6
MaxThreads == 2

NewSequencer(has_session) ==
    [session |-> has_session, is_running |-> TRUE, joining |-> FALSE, pc |-> "idle",
     next_track |-> 0, slice_range |-> <<0, 0>>, stale |-> FALSE,
     threads |-> 1, loop_time |-> 0, ticks |-> 0]

(************************ ShepherdBackendControllerApp **********************)
\* Delays are counted in 1/128 of a second, so that multiplying the initial
\* delay by 1.5 stays a whole number up to the cap.
DelayScale == 128
InitialDelay == 2 * DelayScale
MaxDelay == 30 * DelayScale
MaxAttempts == 3
MaxPendingCloses == 2

\* The app after __init__, which has created the first connection and started
\* the monitor.  ws is the state of the connection app.ws refers to: "none"
\* for None, "connecting" once its thread is started, "open" once its on_open
\* has run, "closing" once it has ended or was closed and its on_close is
\* still to run, "closed" after that.  replaced counts the connections app.ws
\* no longer refers to whose on_close is still to run, and lock tells that
\* app.connection_lock is held by _create_new_connection.  monitor_pc is the
\* position of the monitor thread in run(), attempt and delay its locals, and
\* main_pc the position of the thread that calls disconnect().
NewControllerApp ==
    [ws |-> "connecting", connected |-> FALSE, lock |-> FALSE, replaced |-> 0,
     should_reconnect |-> TRUE, monitor_pc |-> "loop", attempt |-> 0,
     delay |-> InitialDelay, main_pc |-> "running"]

\* ws.close() on a connection leaves an on_close to run unless it has run.
PendingAfterClose(c) ==
    IF c.ws \in {"connecting", "open", "closing"} THEN c.replaced + 1 ELSE c.replaced

(***************************** HardwareDevice ******************************)
\* HardwareDevice(name, short_name, device_type, midi_device_name, midi_channel).
\* midi_port is the port handle the device holds, NoPort for None; a handle is
\* the ordinal, among the ports mido opened for this device, of the port it
\* names, and ports_opened counts those ports.  sounding tells that the
\* instrument behind the port was sent a note-on and no note-off since.
NoPort == 0
MaxPorts == 3

NewHardwareDevice(device_type, midi_channel) ==
    [type |-> device_type, midi_channel |-> midi_channel, is_open |-> FALSE,
     midi_cc_values |-> <<>>, control_change_mapping |-> <<>>,
     midi_port |-> NoPort, ports_opened |-> 0, sounding |-> FALSE]

(************************** HardwareDeviceManager **************************)
\* The short names _load_device_configuration gives to the devices of two
\* output ports and one input port.
DeviceNames == {"Out1", "Out2", "In1"}

DeviceTypeOf(name) == IF name = "In1" THEN "input" ELSE "output"

\* HardwareDeviceManager.initialize(): one device per port, on channel 1, each
\* added with add_device, which opens it; opened are the names of those whose
\* open() succeeded.
LoadDeviceConfiguration(opened) ==
    [n \in DeviceNames |->
        IF n \in opened
        THEN [NewHardwareDevice(DeviceTypeOf(n), 1) EXCEPT
                  !.is_open = TRUE, !.midi_port = 1, !.ports_opened = 1]
        ELSE NewHardwareDevice(DeviceTypeOf(n), 1)]

(***************************** Session, Track ******************************)
\* Session(name, num_tracks, num_scenes, sequencer): the two sizes as given.
NewSession(num_tracks, num_scenes) ==
    [num_tracks |-> num_tracks, num_scenes |-> num_scenes]

\* Track(name, num_scenes, session), hardware routing only.
NewTrack == [output_hardware_device_name |-> ""]

\* The tracks Session.__init__ creates, one per i in range(num_tracks), and the
\* clips Track.__init__ creates, one per i in range(num_scenes).
SessionTracks(num_tracks) == [t \in 0..(num_tracks - 1) |-> NewTrack]

SessionClips(num_tracks, num_scenes) ==
    [t \in 0..(num_tracks - 1) |-> [c \in 0..(num_scenes - 1) |-> NewClip]]

(******************************** history **********************************)
Call(op, t, c) ==
    [op |-> op, track |-> t, scene |-> c, start_beats |-> 0, end_beats |-> 0,
     pre_playing |-> FALSE, pre_playhead |-> 0, pre_clips |-> <<>>]

(********************************* Init ************************************)
Init ==
    /\ clips = [t \in Tracks |-> [c \in Scenes |-> NewClip]]
    /\ sent = <<>>
    /\ last = Call("new_session", 0, 0)
    /\ ctx = NewMusicalContext(0)
    /\ now = 0
    /\ seq = NewSequencer(TRUE)
    /\ dev = NewHardwareDevice("output", 1)
    /\ session = NewSession(NumTracks, NumScenes)
    /\ tracks = SessionTracks(NumTracks)
    /\ devices = LoadDeviceConfiguration(DeviceNames)
    /\ client = NewControllerApp

(***************************** clip operations *****************************)
Play(t, c) ==
    /\ clips' = [clips EXCEPT ![t][c] = ClipPlay(@)]
    /\ sent' = <<>>
    /\ last' = Call("play", t, c)
    /\ UNCHANGED <<ctx, now, seq, dev, session, tracks, devices, client>>

Stop(t, c) ==
    /\ clips' = [clips EXCEPT ![t][c] = ClipStop(@)]
    /\ sent' = <<>>
    /\ last' = Call("stop", t, c)
    /\ UNCHANGED <<ctx, now, seq, dev, session, tracks, devices, client>>

TogglePlayStop(t, c) ==
    /\ clips' = [clips EXCEPT ![t][c] = ClipTogglePlayStop(@)]
    /\ sent' = <<>>
    /\ last' = Call("toggle_play_stop", t, c)
    /\ UNCHANGED <<ctx, now, seq, dev, session, tracks, devices, client>>

StartRecording(t, c) ==
    /\ clips' = [clips EXCEPT ![t][c] = ClipStartRecording(@)]
    /\ sent' = <<>>
    /\ last' = Call("start_recording", t, c)
    /\ UNCHANGED <<ctx, now, seq, dev, session, tracks, devices, client>>

StopRecording(t, c) ==
    /\ clips' = [clips EXCEPT ![t][c] = ClipStopRecording(@)]
    /\ sent' = <<>>
    /\ last' = Call("stop_recording", t, c)
    /\ UNCHANGED <<ctx, now, seq, dev, session, tracks, devices, client>>

ProcessSlice(t, c, s, e) ==
    \E draws \in [RandomDraws(clips[t][c], s, e) -> Draws] :
        LET r == ClipProcessSlice(clips[t][c], s, e, draws)
        IN  /\ clips' = [clips EXCEPT ![t][c] = r.clip]
            /\ sent' = r.out
            /\ last' = [Call("process_slice", t, c) EXCEPT
                            !.start_beats = s, !.end_beats = e,
                            !.pre_playing = clips[t][c].is_playing,
                            !.pre_playhead = clips[t][c].playhead_position_beats]
            /\ UNCHANGED <<ctx, now, seq, dev, session, tracks, devices, client>>

AddNoteEvent(t, c, timestamp, note, velocity, duration, channel) ==
    /\ Len(clips[t][c].sequence_events) < MaxEvents
    /\ clips' = [clips EXCEPT ![t][c] =
                    ClipAddNoteEvent(@, timestamp, note, velocity, duration, channel)]
    /\ sent' = <<>>
    /\ last' = Call("add_note_event", t, c)
    /\ UNCHANGED <<ctx, now, seq, dev, session, tracks, devices, client>>

SetChance(t, c, i, chance) ==
    /\ i \in 1 .. Len(clips[t][c].sequence_events)
    /\ clips' = [clips EXCEPT ![t][c].sequence_events[i].chance = chance]
    /\ sent' = <<>>
    /\ last' = Call("set_chance", t, c)
    /\ UNCHANGED <<ctx, now, seq, dev, session, tracks, devices, client>>

SetLength(t, c, length_beats) ==
    /\ clips' = [clips EXCEPT ![t][c] = ClipSetLength(@, length_beats)]
    /\ sent' = <<>>
    /\ last' = Call("set_length", t, c)
    /\ UNCHANGED <<ctx, now, seq, dev, session, tracks, devices, client>>

QuantizeEvents(t, c, quantization_step) ==
    LET r == ClipQuantizeEvents(clips[t][c], quantization_step)
    IN  /\ clips' = [clips EXCEPT ![t][c] = r.clip]
        /\ sent' = <<>>
        /\ last' = [op |-> "quantize_events", track |-> t, scene |-> c,
                    step |-> quantization_step, raised |-> r.raised,
                    pre_clips |-> clips]
        /\ UNCHANGED <<ctx, now, seq, dev, session, tracks, devices, client>>

SetWrap(t, c, wrap) ==
    /\ clips' = [clips EXCEPT ![t][c].wrap_events_across_loop = wrap]
    /\ sent' = <<>>
    /\ last' = Call("set_wrap", t, c)
    /\ UNCHANGED <<ctx, now, seq, dev, session, tracks, devices, client>>

(***************************** track operations ****************************)
\* play_clip leaving the other clips of the track as they are.
TrackPlayClip_KeepsOthers(track_clips, scene_idx) ==
    IF scene_idx \in Scenes
    THEN [c \in Scenes |->
            IF c = scene_idx THEN ClipPlay(track_clips[c]) ELSE track_clips[c]]
    ELSE track_clips

\* play_clip stopping the playing clips before it looks the index up.
TrackPlayClip_StopsOthersFirst(track_clips, scene_idx) ==
    [c \in Scenes |->
        IF c = scene_idx THEN ClipPlay(track_clips[c])
        ELSE IF track_clips[c].is_playing THEN ClipStop(track_clips[c])
             ELSE track_clips[c]]

\* Track.play_clip on the track's clip array.
TrackPlayClip(track_clips, scene_idx) ==
    IF scene_idx \in Scenes
    THEN [c \in Scenes |->
            IF c = scene_idx THEN ClipPlay(track_clips[c])
            ELSE IF track_clips[c].is_playing THEN ClipStop(track_clips[c])
                 ELSE track_clips[c]]
    ELSE track_clips

TrackStopAllClips(track_clips) ==
    [c \in Scenes |-> ClipStop(track_clips[c])]

RECURSIVE TrackSentFrom(_, _)
TrackSentFrom(results, c) ==
    IF c >= NumScenes THEN <<>> ELSE results[c].out \o TrackSentFrom(results, c + 1)

PlayClip(t, scene_idx) ==
    /\ clips' = [clips EXCEPT ![t] = TrackPlayClip(@, scene_idx)]
    /\ sent' = <<>>
    /\ last' = [Call("play_clip", t, scene_idx) EXCEPT !.pre_clips = clips]
    /\ UNCHANGED <<ctx, now, seq, dev, session, tracks, devices, client>>

StopAllClips(t) ==
    /\ clips' = [clips EXCEPT ![t] = TrackStopAllClips(@)]
    /\ sent' = <<>>
    /\ last' = Call("track_stop_all_clips", t, 0)
    /\ UNCHANGED <<ctx, now, seq, dev, session, tracks, devices, client>>

\* The values random.random() can return to the clips of a track that processes
\* the slice (s, e): for each clip, one draw for each event that asks for one.
TrackRandomDraws(track_clips, s, e) ==
    LET asked == {p \in Scenes \X (1 .. MaxEvents) :
                     p[2] \in RandomDraws(track_clips[p[1]], s, e)}
    IN  {[c \in Scenes |-> [i \in RandomDraws(track_clips[c], s, e) |-> f[<<c, i>>]]] :
            f \in [asked -> Draws]}

\* Track.process_slice((s, e)) on the track's clip array: every clip that is
\* playing processes the slice.
TrackProcessed(track_clips, s, e, draws) ==
    [c \in Scenes |->
        IF track_clips[c].is_playing
        THEN ClipProcessSlice(track_clips[c], s, e, draws[c])
        ELSE [clip |-> track_clips[c], out |-> <<>>]]

\* Track.process_slice((s, e)) on track t.
TrackProcessSlice(t, s, e) ==
    \E draws \in TrackRandomDraws(clips[t], s, e) :
        LET results == TrackProcessed(clips[t], s, e, draws)
        IN  /\ clips' = [clips EXCEPT ![t] = [c \in Scenes |-> results[c].clip]]
            /\ sent' = TrackSentFrom(results, 0)
            /\ last' = Call("track_process_slice", t, 0)
            /\ UNCHANGED <<ctx, now, seq, dev, session, tracks, devices, client>>

(**************************** session operations ***************************)
\* play_scene(scene_idx) of the session s, whose tracks hold all_clips.
SessionPlaySceneOf(s, all_clips, scene_idx) ==
    IF 0 <= scene_idx /\ scene_idx < s.num_scenes
    THEN [t \in DOMAIN all_clips |->
            IF scene_idx < Cardinality(DOMAIN all_clips[t])
            THEN [all_clips[t] EXCEPT ![scene_idx] = ClipPlay(@)]
            ELSE all_clips[t]]
    ELSE all_clips

SessionPlayScene(all_clips, scene_idx) ==
    SessionPlaySceneOf(NewSession(NumTracks, NumScenes), all_clips, scene_idx)

SessionStopAllClips(all_clips) ==
    [t \in Tracks |-> [c \in Scenes |-> ClipStop(all_clips[t][c])]]

PlayScene(scene_idx) ==
    /\ clips' = SessionPlayScene(clips, scene_idx)
    /\ sent' = <<>>
    /\ last' = [Call("play_scene", 0, scene_idx) EXCEPT !.pre_clips = clips]
    /\ UNCHANGED <<ctx, now, seq, dev, session, tracks, devices, client>>

SessionStopAll ==
    /\ clips' = SessionStopAllClips(clips)
    /\ sent' = <<>>
    /\ last' = Call("session_stop_all_clips", 0, 0)
    /\ UNCHANGED <<ctx, now, seq, dev, session, tracks, devices, client>>

(*********************** session transport and tempo ***********************)
SessionPlay(c, t) == MusicalContextSetPlaying(c, TRUE, t)

SessionStop(c, t) == MusicalContextSetPlaying(c, FALSE, t)

SessionPlayStopToggle(c, t) == MusicalContextSetPlaying(c, ~c.is_playing, t)

SessionSetBpm(c, bpm) == MusicalContextSetBpm(c, bpm)

SessionSetMeter(c, meter) == MusicalContextSetMeter(c, meter)

SessionSetMetronome(c, enabled) == MusicalContextSetMetronome(c, enabled)

(************************ musical context operations ***********************)
NoTime == 0 - 1

NoSnapshot == [playhead_position_beats |-> 0, tick_start_beats |-> 0, pending_tracks |-> {}]

\* The tracks the processing thread has still to process in the tick it is in.
PendingTracks ==
    IF seq.pc = "tracks" THEN seq.next_track .. (NumTracks - 1) ELSE {}

\* The record of a call on the musical context or of an event of the server:
\* when it happened, the context it started from, what it returned, and, for
\* get_current_slice_range, the time of the set_playing(True) call it follows
\* and the seconds the context had then been stopped for since its wall-clock
\* reference was written.
ContextCall(op, arg) ==
    [op |-> op, arg |-> arg, at |-> now, pre |-> ctx, ret |-> <<>>, resumed_at |-> NoTime,
     stopped_seconds |-> 0, range_pending |-> FALSE, snapshot |-> NoSnapshot]

PlayheadInBounds(c) ==
    /\ c.playhead_position_beats <= MaxPlayheadBeats
    /\ c.playhead_position_beats >= 0 - MaxPlayheadBeats

\* time.time() returns t from now on.
ClockReads(t) ==
    /\ t # now
    /\ now' = t
    /\ UNCHANGED <<clips, sent, last, ctx, seq, dev, session, tracks, devices, client>>

\* time.time() returns the later time t from now on.
ClockAdvances(t) ==
    /\ t > now
    /\ now' = t
    /\ UNCHANGED <<clips, sent, last, ctx, seq, dev, session, tracks, devices, client>>

SetBpm(bpm) ==
    /\ ctx' = MusicalContextSetBpm(ctx, bpm)
    /\ last' = ContextCall("set_bpm", bpm)
    /\ UNCHANGED <<clips, sent, now, seq, dev, session, tracks, devices, client>>

SetMeter(meter) ==
    /\ ctx' = MusicalContextSetMeter(ctx, meter)
    /\ last' = ContextCall("set_meter", meter)
    /\ UNCHANGED <<clips, sent, now, seq, dev, session, tracks, devices, client>>

CallSessionSetBpm(bpm) ==
    /\ seq.session
    /\ ctx' = SessionSetBpm(ctx, bpm)
    /\ last' = ContextCall("session_set_bpm", bpm)
    /\ UNCHANGED <<clips, sent, now, seq, dev, session, tracks, devices, client>>

CallSessionSetMeter(meter) ==
    /\ seq.session
    /\ ctx' = SessionSetMeter(ctx, meter)
    /\ last' = ContextCall("session_set_meter", meter)
    /\ UNCHANGED <<clips, sent, now, seq, dev, session, tracks, devices, client>>

SetPlaying(playing) ==
    /\ ctx' = MusicalContextSetPlaying(ctx, playing, now)
    /\ last' = ContextCall("set_playing", playing)
    /\ UNCHANGED <<clips, sent, now, seq, dev, session, tracks, devices, client>>

SetMetronome(enabled) ==
    /\ ctx' = MusicalContextSetMetronome(ctx, enabled)
    /\ last' = ContextCall("set_metronome", enabled)
    /\ UNCHANGED <<clips, sent, now, seq, dev, session, tracks, devices, client>>

GetCurrentSliceRange ==
    LET r == MusicalContextGetCurrentSliceRange(ctx, now)
    IN  /\ PlayheadInBounds(r.ctx)
        /\ ctx' = r.ctx
        /\ last' = [ContextCall("get_current_slice_range", 0) EXCEPT
                        !.ret = r.range,
                        !.resumed_at = IF last.op = "set_playing" /\ last.arg = TRUE
                                       THEN last.at ELSE NoTime,
                        !.stopped_seconds =
                            IF last.op = "set_playing" /\ last.arg = TRUE
                                   /\ ~last.pre.is_playing
                            THEN last.at - last.pre.last_update_time ELSE 0]
        /\ UNCHANGED <<clips, sent, now, seq, dev, session, tracks, devices, client>>

ResetPlayhead ==
    /\ ctx' = MusicalContextResetPlayhead(ctx, now)
    /\ last' = ContextCall("reset_playhead", 0)
    /\ UNCHANGED <<clips, sent, now, seq, dev, session, tracks, devices, client>>

(*************************** the processing thread *************************)
\* _process_midi_slice up to the head of its loop over the tracks; without a
\* session it returns at once.
TickBegin ==
    /\ seq.pc = "idle"
    /\ seq.is_running
    /\ seq.session
    /\ LET r == MusicalContextGetCurrentSliceRange(ctx, now)
       IN  /\ PlayheadInBounds(r.ctx)
           /\ ctx' = r.ctx
           /\ seq' = [seq EXCEPT !.pc = "tracks", !.next_track = 0,
                                 !.slice_range = r.range, !.stale = FALSE]
    /\ UNCHANGED <<clips, sent, last, now, dev, session, tracks, devices, client>>

\* One pass of the loop of _process_midi_slice: the next track of the session
\* the loop started on processes the slice.  A session replaced meanwhile is not
\* the one whose tracks are processed.
TickTrack ==
    /\ seq.pc = "tracks"
    /\ LET t == seq.next_track
           s == seq.slice_range[1]
           e == seq.slice_range[2]
       IN  /\ \E draws \in TrackRandomDraws(clips[t], s, e) :
                 LET results == TrackProcessed(clips[t], s, e, draws)
                 IN  IF seq.stale
                     THEN UNCHANGED <<clips, sent>>
                     ELSE /\ clips' = [clips EXCEPT ![t] = [c \in Scenes |-> results[c].clip]]
                          /\ sent' = TrackSentFrom(results, 0)
           /\ seq' = IF t + 1 < NumTracks
                     THEN [seq EXCEPT !.next_track = t + 1]
                     ELSE [seq EXCEPT !.pc = "idle", !.next_track = 0,
                                      !.slice_range = <<0, 0>>, !.stale = FALSE]
    /\ UNCHANGED <<last, ctx, now, dev, session, tracks, devices, client>>

\* The loop of _processing_loop finds is_running false and the thread ends.
ThreadExit ==
    /\ seq.pc = "idle"
    /\ ~seq.is_running
    /\ seq' = [seq EXCEPT !.threads = @ - 1,
                          !.pc = IF seq.threads = 1 THEN "done" ELSE "idle"]
    /\ UNCHANGED <<clips, sent, last, ctx, now, dev, session, tracks, devices, client>>

\* One pass of the loop of _processing_loop on a sequencer without a
\* session, where _process_midi_slice returns at once: elapsed is the
\* difference of the two clock readings, and the thread sleeps for what is
\* left of the slice duration, if anything.
LoopIteration(elapsed) ==
    /\ seq.pc = "idle"
    /\ seq.is_running
    /\ ~seq.session
    /\ seq.ticks < MaxTicks
    /\ LET start_time == seq.loop_time
           slice_duration == Cadence
           sleep_time == IF slice_duration - elapsed > 0
                         THEN slice_duration - elapsed ELSE 0
       IN  /\ seq' = [seq EXCEPT !.loop_time = start_time + elapsed + sleep_time,
                                 !.ticks = @ + 1]
           /\ last' = [op |-> "loop_iteration", start_time |-> start_time,
                       elapsed |-> elapsed, sleep_time |-> sleep_time]
    /\ UNCHANGED <<clips, sent, ctx, now, dev, session, tracks, devices, client>>

\* start(), called by the thread that also calls stop(): nothing when the
\* flag is set, else the flag is set and a new thread enters _processing_loop.
StartCall ==
    /\ ~seq.joining
    /\ ~seq.is_running
    /\ seq.threads < MaxThreads
    /\ seq' = [seq EXCEPT !.is_running = TRUE, !.threads = @ + 1,
                          !.pc = IF @ = "done" THEN "idle" ELSE @]
    /\ last' = [op |-> "start", threads_before |-> seq.threads]
    /\ UNCHANGED <<clips, sent, ctx, now, dev, session, tracks, devices, client>>

\* stop() up to its join: the flag is cleared.
StopCall ==
    /\ ~seq.joining
    /\ seq' = [seq EXCEPT !.is_running = FALSE, !.joining = TRUE]
    /\ UNCHANGED <<clips, sent, last, ctx, now, dev, session, tracks, devices, client>>

\* stop() returns: the thread has ended, or the join timed out after a second.
StopReturn(timed_out) ==
    /\ seq.joining
    /\ seq.pc = "done" \/ timed_out
    /\ seq' = [seq EXCEPT !.joining = FALSE]
    /\ last' = [op |-> "stop", joined |-> (seq.pc = "done")]
    /\ UNCHANGED <<clips, sent, ctx, now, dev, session, tracks, devices, client>>

(**************************** the server thread ****************************)
Addresses ==
    {"/settings/new", "/transport/play", "/transport/stop", "/transport/playStop",
     "/transport/setBpm", "/transport/setMeter", "/metronome/onOff", "/scene/play"}

\* Sequencer.get_state_dict as far as the tick is concerned: the playhead of the
\* musical context, the playhead the running tick started from, and the tracks
\* that tick has not processed yet.
GetStateDict(c) ==
    [playhead_position_beats |-> c.playhead_position_beats,
     tick_start_beats |-> IF seq.pc = "tracks" THEN seq.slice_range[1]
                          ELSE c.playhead_position_beats,
     pending_tracks |-> PendingTracks]

\* The musical context after the command.
RoutedContext(address, x) ==
    IF ~seq.session THEN ctx
    ELSE CASE address = "/transport/play" -> SessionPlay(ctx, now)
           [] address = "/transport/stop" -> SessionStop(ctx, now)
           [] address = "/transport/playStop" -> SessionPlayStopToggle(ctx, now)
           [] address = "/transport/setBpm" -> SessionSetBpm(ctx, x)
           [] address = "/transport/setMeter" -> SessionSetMeter(ctx, x)
           [] address = "/metronome/onOff" -> SessionSetMetronome(ctx, ~ctx.metronome_on)
           [] OTHER -> ctx

\* The clips of the session after the command; the argument of '/settings/new'
\* is the pair of its two sizes.
RoutedClips(address, x) ==
    CASE address = "/settings/new" -> SessionClips(x[1], x[2])
      [] address = "/scene/play" /\ seq.session -> SessionPlaySceneOf(session, clips, x)
      [] OTHER -> clips

\* Sequencer.new_session(num_tracks, num_scenes) as to self.session, and what
\* it does to a tick that is looping over the tracks of the session replaced.
RoutedSession(address, x) ==
    IF address = "/settings/new" THEN NewSession(x[1], x[2]) ELSE session

RoutedTracks(address, x) ==
    IF address = "/settings/new" THEN SessionTracks(x[1]) ELSE tracks

RoutedSequencer(address) ==
    IF address = "/settings/new"
    THEN [seq EXCEPT !.session = TRUE, !.stale = (seq.pc = "tracks")]
    ELSE seq

\* _route_message(address, [x]) on the server's thread: the command takes effect
\* at once, and the state as it then is goes to the clients.
RouteMessage(address, x) ==
    /\ ctx' = RoutedContext(address, x)
    /\ clips' = RoutedClips(address, x)
    /\ session' = RoutedSession(address, x)
    /\ tracks' = RoutedTracks(address, x)
    /\ seq' = RoutedSequencer(address)
    /\ last' = [ContextCall(address, x) EXCEPT
                    !.range_pending = (seq.pc = "tracks"),
                    !.snapshot = GetStateDict(RoutedContext(address, x))]
    /\ UNCHANGED <<sent, now, dev, devices, client>>

\* The words a message is split into, as far as int() and float() tell them
\* apart.
Tokens == {"1", "-1", "x", "1.0"}

\* int(token) and float(token): the value in a list of one, or the empty list
\* where Python raises ValueError.
IntOf(token) ==
    CASE token = "1" -> <<1>>
      [] token = "-1" -> <<0 - 1>>
      [] OTHER -> <<>>

FloatOf(token) ==
    CASE token = "1" -> <<1>>
      [] token = "1.0" -> <<1>>
      [] token = "-1" -> <<0 - 1>>
      [] OTHER -> <<>>

\* The addresses _route_message tells apart, one under '/clip/', and one it does
\* not know.
CommandAddresses ==
    Addresses \cup {"/settings/save", "/track/setOutputHardwareDevice", "/clip/play",
                    "/unknown"}

\* How many of its parameters the branch of an address looks at, and the lists
\* of parameters that differ in what it looks at.
ParamsRead(address) ==
    CASE address \in {"/settings/new", "/track/setOutputHardwareDevice"} -> 2
      [] address \in {"/settings/save", "/transport/setBpm", "/transport/setMeter",
                      "/scene/play"} -> 1
      [] OTHER -> 0

ParamLists(address) == UNION {[1..n -> Tokens] : n \in 0..ParamsRead(address)}

\* _route_message with a missing parameter read as "1".
RouteArgument_MissingIsOne(address, params) ==
    LET p(k) == IF k <= Len(params) THEN params[k] ELSE "1"
    IN  CASE address = "/settings/new" ->
               IF IntOf(p(1)) # <<>> /\ IntOf(p(2)) # <<>>
               THEN <<<<IntOf(p(1))[1], IntOf(p(2))[1]>>>> ELSE <<>>
          [] address = "/transport/setBpm" -> FloatOf(p(1))
          [] address \in {"/transport/setMeter", "/scene/play"} -> IntOf(p(1))
          [] OTHER -> <<0>>

\* What _route_message reads from params before it acts: the argument in a list
\* of one, or the empty list where params[k], int() or float() raises.
RouteArgument(address, params) ==
    CASE address = "/settings/new" ->
           IF Len(params) >= 2 /\ IntOf(params[1]) # <<>> /\ IntOf(params[2]) # <<>>
           THEN <<<<IntOf(params[1])[1], IntOf(params[2])[1]>>>> ELSE <<>>
      [] address = "/transport/setBpm" ->
           IF Len(params) >= 1 THEN FloatOf(params[1]) ELSE <<>>
      [] address \in {"/transport/setMeter", "/scene/play"} ->
           IF Len(params) >= 1 THEN IntOf(params[1]) ELSE <<>>
      [] address = "/track/setOutputHardwareDevice" ->
           IF Len(params) >= 2 THEN <<0>> ELSE <<>>
      [] OTHER -> <<0>>

\* The whole of the sequencer a command can reach.
SequencerState == <<clips, ctx, seq, session, tracks, devices>>

\* _handle_message(websocket, message) for the message "address params...": the
\* command is routed, and where that raises the error goes to the client and
\* the loop of _handle_client goes on to the next message.
HandleMessage(address, params) ==
    LET parsed == RouteArgument(address, params)
        raised == parsed = <<>>
        x == IF raised THEN 0 ELSE parsed[1]
    IN  /\ ctx' = IF raised THEN ctx ELSE RoutedContext(address, x)
        /\ clips' = IF raised THEN clips ELSE RoutedClips(address, x)
        /\ session' = IF raised THEN session ELSE RoutedSession(address, x)
        /\ tracks' = IF raised THEN tracks ELSE RoutedTracks(address, x)
        /\ seq' = IF raised THEN seq ELSE RoutedSequencer(address)
        /\ last' = [op |-> "handle_message", address |-> address, params |-> params,
                    raised |-> raised, pre |-> SequencerState,
                    after_error |-> (last.op = "handle_message" /\ last.raised)]
        /\ UNCHANGED <<sent, now, dev, devices, client>>

\* Sequencer.new_session(num_tracks, num_scenes), called directly.
SizeArgs == {0 - 1, 0, 2}

CallNewSession(num_tracks, num_scenes) ==
    /\ clips' = SessionClips(num_tracks, num_scenes)
    /\ session' = NewSession(num_tracks, num_scenes)
    /\ tracks' = SessionTracks(num_tracks)
    /\ seq' = [seq EXCEPT !.session = TRUE, !.stale = (seq.pc = "tracks")]
    /\ last' = [op |-> "new_session", num_tracks |-> num_tracks,
                num_scenes |-> num_scenes]
    /\ UNCHANGED <<sent, ctx, now, dev, devices, client>>

\* _handle_client up to its loop: a client connects and is sent the state.
HandleClient ==
    /\ last' = [ContextCall("connect", 0) EXCEPT
                    !.range_pending = (seq.pc = "tracks"),
                    !.snapshot = GetStateDict(ctx)]
    /\ UNCHANGED <<clips, sent, ctx, now, seq, dev, session, tracks, devices, client>>


(************************ hardware device operations ***********************)
\* The most encoders a mapping names, the CC numbers it holds for them, and the
\* lists update_encoders_backend_mapping and clear_encoders_backend_mapping can
\* pass, of any length up to that.
NumEncoders == 2
EncoderCcArgs == {0 - 1, 0, 7}
Mappings == UNION {[1..n -> EncoderCcArgs] : n \in 0..NumEncoders}

DeviceTypes == {"input", "output"}
ChannelArgs == {0, 1, 16, 20}
CcNumbers == {7, 130}
CcValues == {0 - 1, 64, 200}

\* mido.Message('control_change', channel, control, value) raises ValueError for
\* a channel outside 0 .. 15 or a data byte outside 0 .. 127.
MidoMessageRaises(channel, control, value) ==
    \/ channel \notin 0 .. 15
    \/ control \notin 0 .. MidiDataMax
    \/ value \notin 0 .. MidiDataMax

Max(a, b) == IF a >= b THEN a ELSE b

Min(a, b) == IF a <= b THEN a ELSE b

\* dict.__setitem__ on _midi_cc_values.
StoreCc(d, cc_number, value) ==
    [d EXCEPT !.midi_cc_values =
        [k \in (DOMAIN @) \cup {cc_number} |-> IF k = cc_number THEN value ELSE @[k]]]

\* get_current_midi_cc_parameter_value(cc_number).
DeviceGetCurrentMidiCcParameterValue(d, cc_number) ==
    IF cc_number \in DOMAIN d.midi_cc_values THEN d.midi_cc_values[cc_number] ELSE 0

\* send_message(message): the messages that reach the port.  port_fails tells
\* that the port's send raises, which send_message catches.
DeviceSendMessage(d, message, port_fails) ==
    IF d.type = "output" /\ d.is_open /\ d.midi_port # NoPort /\ ~port_fails
    THEN <<message>> ELSE <<>>

\* set_midi_cc_parameter_value(cc_number, value): the device afterwards, the
\* messages that reached the port and whether the call raised.
DeviceSetMidiCcParameterValue(d, cc_number, value, port_fails) ==
    LET clamped == Max(0, Min(MidiDataMax, value))
        stored == StoreCc(d, cc_number, clamped)
    IN  IF d.type = "output"
        THEN IF MidoMessageRaises(d.midi_channel - 1, cc_number, clamped)
             THEN [dev |-> stored, out |-> <<>>, raised |-> TRUE]
             ELSE [dev |-> stored,
                   out |-> DeviceSendMessage(d,
                               [type |-> "control_change", channel |-> d.midi_channel - 1,
                                control |-> cc_number, value |-> clamped], port_fails),
                   raised |-> FALSE]
        ELSE [dev |-> stored, out |-> <<>>, raised |-> FALSE]

\* handle_control_change(cc_number, value).
DeviceHandleControlChange(d, cc_number, value) == StoreCc(d, cc_number, value)

\* set_control_change_mapping without its first statement: the entries of the
\* mapping installed before stay where the new one maps nothing.
DeviceSetControlChangeMapping_KeepsOld(d, mapping) ==
    [d EXCEPT !.control_change_mapping =
        [k \in DOMAIN d.control_change_mapping
                \cup {e \in 0..(Len(mapping) - 1) : mapping[e + 1] >= 0} |->
            IF k < Len(mapping) /\ mapping[k + 1] >= 0
            THEN mapping[k + 1] ELSE d.control_change_mapping[k]]]

\* set_control_change_mapping(mapping): the dict is built anew from
\* enumerate(mapping), with an entry for each encoder whose CC number is >= 0.
\* mapping is the list, encoder 0 first.
DeviceSetControlChangeMapping(d, mapping) ==
    [d EXCEPT !.control_change_mapping =
        [k \in {e \in 0..(Len(mapping) - 1) : mapping[e + 1] >= 0} |-> mapping[k + 1]]]

DeviceCall(op, cc_number, value) ==
    [op |-> op, cc |-> cc_number, value |-> value, raised |-> FALSE, ret |-> 0,
     pre_is_open |-> dev.is_open, pre_port |-> dev.midi_port,
     pre_ports_opened |-> dev.ports_opened]

\* open(): mido opens a port, which the device then holds, or raises and open()
\* returns False; ret is 1 for True and 0 for False.
DeviceOpen(d, opens) ==
    IF opens
    THEN [dev |-> [d EXCEPT !.midi_port = d.ports_opened + 1,
                            !.ports_opened = d.ports_opened + 1,
                            !.is_open = TRUE],
          ret |-> 1]
    ELSE [dev |-> d, ret |-> 0]

\* close(): the port held, if any, is closed and let go.
DeviceClose(d) ==
    [d EXCEPT !.midi_port = NoPort, !.is_open = FALSE]

Open(opens) ==
    /\ opens => dev.ports_opened < MaxPorts
    /\ dev' = DeviceOpen(dev, opens).dev
    /\ sent' = <<>>
    /\ last' = [DeviceCall("open", 0, 0) EXCEPT !.ret = DeviceOpen(dev, opens).ret]
    /\ UNCHANGED <<clips, ctx, now, seq, session, tracks, devices, client>>

Close ==
    /\ dev' = DeviceClose(dev)
    /\ sent' = <<>>
    /\ last' = DeviceCall("close", 0, 0)
    /\ UNCHANGED <<clips, ctx, now, seq, session, tracks, devices, client>>

SetMidiCcParameterValue(cc_number, value, port_fails) ==
    LET r == DeviceSetMidiCcParameterValue(dev, cc_number, value, port_fails)
    IN  /\ dev' = r.dev
        /\ sent' = r.out
        /\ last' = [DeviceCall("set_midi_cc_parameter_value", cc_number, value) EXCEPT
                        !.raised = r.raised]
        /\ UNCHANGED <<clips, ctx, now, seq, session, tracks, devices, client>>

HandleControlChange(cc_number, value) ==
    /\ dev' = DeviceHandleControlChange(dev, cc_number, value)
    /\ sent' = <<>>
    /\ last' = DeviceCall("handle_control_change", cc_number, value)
    /\ UNCHANGED <<clips, ctx, now, seq, session, tracks, devices, client>>

GetCurrentMidiCcParameterValue(cc_number) ==
    /\ sent' = <<>>
    /\ last' = [DeviceCall("get_current_midi_cc_parameter_value", cc_number, 0) EXCEPT
                    !.ret = DeviceGetCurrentMidiCcParameterValue(dev, cc_number)]
    /\ UNCHANGED <<clips, ctx, now, seq, dev, session, tracks, devices, client>>

\* The set-channel operation of the device as the client holds it.
(****************************** track routing ******************************)
\* The device names a track is given: none, the three devices, and a name no
\* device has.
TrackDeviceArgs == {"", "Nowhere"} \cup DeviceNames

\* HardwareDeviceManager.get_output_device(name): the names of the device found,
\* none unless a device has the name and is of type output.
ManagerGetOutputDevice(devs, name) ==
    {n \in DOMAIN devs : n = name /\ devs[n].type = "output"}

\* Track.get_output_device(): looked up from the name the track holds now.
TrackGetOutputDevice(track, devs) ==
    IF track.output_hardware_device_name # ""
    THEN ManagerGetOutputDevice(devs, track.output_hardware_device_name)
    ELSE {}

\* Track.send_midi_message(message): the names of the devices whose port was
\* sent the message.
TrackSendMidiMessage(track, devs, message, port_fails) ==
    {n \in TrackGetOutputDevice(track, devs) :
        DeviceSendMessage(devs[n], message, port_fails) # <<>>}

SetOutputDevice(t, device_name) ==
    /\ tracks' = [tracks EXCEPT ![t].output_hardware_device_name = device_name]
    /\ sent' = <<>>
    /\ last' = [op |-> "set_output_device", track |-> t, name |-> device_name]
    /\ UNCHANGED <<clips, ctx, now, seq, dev, session, devices, client>>

SendMidiMessage(t, message, port_fails) ==
    /\ sent' = <<message>>
    /\ last' = [op |-> "send_midi_message", track |-> t, raised |-> FALSE,
                pre_track |-> tracks[t],
                reached |-> [n \in DeviceNames |->
                    n \in TrackSendMidiMessage(tracks[t], devices, message, port_fails)]]
    /\ UNCHANGED <<clips, ctx, now, seq, dev, session, tracks, devices, client>>

\* open() and close() of a device of the manager.
OpenDevice(n, opens) ==
    /\ opens => devices[n].ports_opened < MaxPorts
    /\ devices' = [devices EXCEPT ![n] = DeviceOpen(@, opens).dev]
    /\ sent' = <<>>
    /\ last' = [op |-> "open", name |-> n]
    /\ UNCHANGED <<clips, ctx, now, seq, dev, session, tracks, client>>

CloseDevice(n) ==
    /\ devices' = [devices EXCEPT ![n] = DeviceClose(@)]
    /\ sent' = <<>>
    /\ last' = [op |-> "close", name |-> n]
    /\ UNCHANGED <<clips, ctx, now, seq, dev, session, tracks, client>>

\* _send_midi_for_event of an event of a clip of track t that has passed its
\* chance test, up to its first track.send_midi_message: the note-on is sent.
\* The ports take every message here.
SendNoteOnForEvent(t) ==
    /\ seq.pc = "idle"
    /\ LET note_on == NoteOn(SequenceEvent(0, 60, 100, 1, 1), 1)
           reached == TrackSendMidiMessage(tracks[t], devices, note_on, FALSE)
       IN  /\ devices' = [n \in DeviceNames |->
                             IF n \in reached
                             THEN [devices[n] EXCEPT !.sounding = TRUE]
                             ELSE devices[n]]
           /\ sent' = <<note_on>>
    /\ seq' = [seq EXCEPT !.pc = "note_off", !.next_track = t]
    /\ last' = [op |-> "note_on", track |-> t]
    /\ UNCHANGED <<clips, ctx, now, dev, session, tracks, client>>

\* _send_midi_for_event from there: the note-off is sent, through the device
\* the track names now.
SendNoteOffForEvent ==
    /\ seq.pc = "note_off"
    /\ LET t == seq.next_track
           note_off == NoteOff(SequenceEvent(0, 60, 100, 1, 1), 1)
           reached == TrackSendMidiMessage(tracks[t], devices, note_off, FALSE)
       IN  /\ devices' = [n \in DeviceNames |->
                             IF n \in reached
                             THEN [devices[n] EXCEPT !.sounding = FALSE]
                             ELSE devices[n]]
           /\ sent' = <<note_off>>
           /\ last' = [op |-> "note_off", track |-> t]
    /\ seq' = [seq EXCEPT !.pc = "idle", !.next_track = 0]
    /\ UNCHANGED <<clips, ctx, now, dev, session, tracks, client>>

SetControlChangeMapping(mapping) ==
    /\ dev' = DeviceSetControlChangeMapping(dev, mapping)
    /\ sent' = <<>>
    /\ last' = [op |-> "set_control_change_mapping", mapping |-> mapping, pre |-> dev]
    /\ UNCHANGED <<clips, ctx, now, seq, session, tracks, devices, client>>

SetMidiChannel(channel) ==
    /\ dev' = [dev EXCEPT !.midi_channel = channel]
    /\ sent' = <<>>
    /\ last' = DeviceCall("set_midi_channel", 0, channel)
    /\ UNCHANGED <<clips, ctx, now, seq, session, tracks, devices, client>>

(****************************** specifications *****************************)
\* One clip (track 0, scene 0) edited, played and processed slice by slice.
Next ==
    \E t \in {0}, c \in {0} :
        \/ Play(t, c)
        \/ Stop(t, c)
        \/ \E s \in SliceStarts, n \in SliceLengths : ProcessSlice(t, c, s, s + n)
        \/ \E ts \in Timestamps, note \in Notes, vel \in Velocities,
              d \in Durations, ch \in Channels :
                AddNoteEvent(t, c, ts, note, vel, d, ch)
        \/ \E i \in 1 .. MaxEvents, chance \in Chances : SetChance(t, c, i, chance)
        \/ \E x \in Lengths : SetLength(t, c, x)
        \/ \E b \in BOOLEAN : SetWrap(t, c, b)

Spec == Init /\ [][Next]_vars

\* The whole grid of clips under the transport operations of clip, track and session.
NextGrid ==
    \/ \E t \in Tracks, c \in Scenes :
        \/ Play(t, c)
        \/ Stop(t, c)
        \/ TogglePlayStop(t, c)
        \/ StartRecording(t, c)
        \/ StopRecording(t, c)
    \/ \E t \in Tracks, i \in SceneArgs : PlayClip(t, i)
    \/ \E t \in Tracks : StopAllClips(t)
    \/ \E t \in Tracks, s \in SliceStarts : TrackProcessSlice(t, s, s + GridSliceBeats)
    \/ \E i \in SceneArgs : PlayScene(i)
    \/ SessionStopAll

SpecGrid == Init /\ [][NextGrid]_vars

\* The transport operations of track and session alone.
NextTransport ==
    \/ \E t \in Tracks, i \in SceneArgs : PlayClip(t, i)
    \/ \E t \in Tracks : StopAllClips(t)
    \/ \E t \in Tracks, s \in SliceStarts : TrackProcessSlice(t, s, s + GridSliceBeats)
    \/ \E i \in SceneArgs : PlayScene(i)
    \/ SessionStopAll

SpecTransport == Init /\ [][NextTransport]_vars

\* The tracks under Track's own operations; the first clip of the session can
\* also be recorded into.
NextTrack ==
    \/ \E t \in Tracks, i \in SceneArgs : PlayClip(t, i)
    \/ \E t \in Tracks : StopAllClips(t)
    \/ \E t \in Tracks : TrackProcessSlice(t, 0, GridSliceBeats)
    \/ StartRecording(0, 0)

SpecTrack == Init /\ [][NextTrack]_vars

\* A clip given note events with arguments inside and outside the MIDI ranges,
\* and played.
TimestampArgs == {0 - 1, 0}
NoteArgs == {0 - 1, 60, 128}
VelocityArgs == {100, 200}
DurationArgs == {0, 1}

NextEvents ==
    \/ \E ts \in TimestampArgs, note \in NoteArgs, vel \in VelocityArgs,
          d \in DurationArgs, ch \in ChannelArgs :
            AddNoteEvent(0, 0, ts, note, vel, d, ch)
    \/ Play(0, 0)
    \/ ProcessSlice(0, 0, 0, GridSliceBeats)

SpecEvents == Init /\ [][NextEvents]_vars

(************************ editing one clip's events *************************)
\* Starts before, on and between the multiples of the steps below, and steps
\* and lengths that are negative, zero and positive.
StartArgs == (0 - 1) .. 3
QuantizeArgs == {0 - 2, 0, 2, 3}
LengthArgs == {0 - 1, 0, 2, 8}

NextQuantize ==
    \/ \E ts \in StartArgs, d \in Durations : AddNoteEvent(0, 0, ts, 60, 100, d, 1)
    \/ \E step \in QuantizeArgs : QuantizeEvents(0, 0, step)
    \/ \E l \in LengthArgs : SetLength(0, 0, l)

SpecQuantize == Init /\ [][NextQuantize]_vars

(******************* resizing a clip while it is playing ********************)
\* Slices of one or two beats, no longer than any length a clip can have here.
NextResize ==
    \/ Play(0, 0)
    \/ Stop(0, 0)
    \/ \E s \in SliceStarts, d \in 1 .. 2 : ProcessSlice(0, 0, s, s + d)
    \/ \E l \in LengthArgs : SetLength(0, 0, l)

SpecResize == Init /\ [][NextResize]_vars

\* The same, with play_scene called with the indices that name no scene.
OutOfRangeSceneArgs == SceneArgs \ Scenes

NextIndex ==
    \/ NextTrack
    \/ \E i \in OutOfRangeSceneArgs : PlayScene(i)

SpecIndex == Init /\ [][NextIndex]_vars

\* The musical context under its operations, called directly, through the
\* session and by the tempo commands of the server, with any clock readings.
InitContext ==
    /\ clips = [t \in Tracks |-> [c \in Scenes |-> NewClip]]
    /\ sent = <<>>
    /\ now = 0
    /\ ctx = NewMusicalContext(0)
    /\ last = ContextCall("new", 0)
    /\ seq = NewSequencer(TRUE)
    /\ dev = NewHardwareDevice("output", 1)
    /\ session = NewSession(NumTracks, NumScenes)
    /\ tracks = SessionTracks(NumTracks)
    /\ devices = LoadDeviceConfiguration(DeviceNames)
    /\ client = NewControllerApp

NextContext ==
    \/ \E t \in Times : ClockReads(t)
    \/ \E x \in BpmArgs : SetBpm(x) \/ CallSessionSetBpm(x) \/ RouteMessage("/transport/setBpm", x)
    \/ \E x \in MeterArgs :
          SetMeter(x) \/ CallSessionSetMeter(x) \/ RouteMessage("/transport/setMeter", x)
    \/ \E b \in BOOLEAN : SetPlaying(b) \/ SetMetronome(b)
    \/ GetCurrentSliceRange
    \/ ResetPlayhead

SpecContext == InitContext /\ [][NextContext]_vars

\* The processing thread ticking beside the server thread, which handles the
\* commands of its clients as they arrive.  The clock does not run backwards.
ServerCommands ==
    {<<"/settings/new", <<NumTracks, NumScenes>>>>, <<"/transport/play", 0>>, <<"/transport/stop", 0>>,
     <<"/scene/play", 0>>}

InitServer ==
    /\ clips = [t \in Tracks |-> [c \in Scenes |-> NewClip]]
    /\ sent = <<>>
    /\ now = 0
    /\ ctx = NewMusicalContext(0)
    /\ last = ContextCall("new", 0)
    /\ seq = NewSequencer(FALSE)
    /\ dev = NewHardwareDevice("output", 1)
    /\ session = NewSession(NumTracks, NumScenes)
    /\ tracks = SessionTracks(NumTracks)
    /\ devices = LoadDeviceConfiguration(DeviceNames)
    /\ client = NewControllerApp

NextServer ==
    \/ \E t \in Times : ClockAdvances(t)
    \/ TickBegin
    \/ TickTrack
    \/ \E m \in ServerCommands : RouteMessage(m[1], m[2])
    \/ HandleClient

SpecServer == InitServer /\ [][NextServer]_vars

\* A hardware device of either type, constructed with any channel, under its
\* control-change operations.
InitDevice ==
    /\ clips = [t \in Tracks |-> [c \in Scenes |-> NewClip]]
    /\ sent = <<>>
    /\ now = 0
    /\ ctx = NewMusicalContext(0)
    /\ seq = NewSequencer(TRUE)
    /\ \E device_type \in DeviceTypes, midi_channel \in ChannelArgs :
          dev = NewHardwareDevice(device_type, midi_channel)
    /\ session = NewSession(NumTracks, NumScenes)
    /\ tracks = SessionTracks(NumTracks)
    /\ devices = LoadDeviceConfiguration(DeviceNames)
    /\ client = NewControllerApp
    /\ last = DeviceCall("new", 0, 0)

NextDevice ==
    \/ \E b \in BOOLEAN : Open(b)
    \/ Close
    \/ \E cc \in CcNumbers, v \in CcValues, f \in BOOLEAN : SetMidiCcParameterValue(cc, v, f)
    \/ \E cc \in CcNumbers, v \in CcValues : HandleControlChange(cc, v)
    \/ \E cc \in CcNumbers : GetCurrentMidiCcParameterValue(cc)
    \/ \E ch \in ChannelArgs : SetMidiChannel(ch)

SpecDevice == InitDevice /\ [][NextDevice]_vars

\* The same, with stop() called on the sequencer.
NextStop ==
    \/ NextServer
    \/ StopCall
    \/ ThreadExit
    \/ \E timed_out \in BOOLEAN : StopReturn(timed_out)

SpecStop == InitServer /\ [][NextStop]_vars

(************************** the client's connection *************************)
\* run(): the test of the outer while loop.
MonitorLoopTest ==
    /\ client.monitor_pc = "loop"
    /\ client' = [client EXCEPT !.monitor_pc =
                      IF client.should_reconnect THEN "wait_disconnect" ELSE "returned"]
    /\ last' = [op |-> "loop_test"]
    /\ UNCHANGED <<clips, sent, ctx, now, seq, dev, session, tracks, devices>>

\* run(): the wait for disconnection ends, the attempt is counted and the
\* count compared with max_attempts.
MonitorCountAttempt ==
    /\ client.monitor_pc = "wait_disconnect"
    /\ ~client.connected
    /\ client' = [client EXCEPT !.attempt = @ + 1,
                                !.monitor_pc = IF client.attempt + 1 > MaxAttempts
                                               THEN "raised" ELSE "attempt"]
    /\ last' = [op |-> "count_attempt"]
    /\ UNCHANGED <<clips, sent, ctx, now, seq, dev, session, tracks, devices>>

\* _create_new_connection, called by the monitor, up to the start of the new
\* connection's thread: the lock is taken, the old connection closed, the
\* new one created and its thread started.
CreateNewConnectionBegin ==
    /\ client.monitor_pc = "attempt"
    /\ ~client.lock
    /\ PendingAfterClose(client) <= MaxPendingCloses
    /\ client' = [client EXCEPT !.lock = TRUE, !.replaced = PendingAfterClose(client),
                                !.ws = "connecting", !.monitor_pc = "creating"]
    /\ last' = [op |-> "create_new_connection", main_pc |-> client.main_pc]
    /\ UNCHANGED <<clips, sent, ctx, now, seq, dev, session, tracks, devices>>

\* _create_new_connection from there: connected is cleared and the lock released.
CreateNewConnectionEnd ==
    /\ client.monitor_pc = "creating"
    /\ client' = [client EXCEPT !.connected = FALSE, !.lock = FALSE,
                                !.monitor_pc = "wait_connected"]
    /\ last' = [op |-> "connection_created"]
    /\ UNCHANGED <<clips, sent, ctx, now, seq, dev, session, tracks, devices>>

\* run(): the wait for the connection has ended and connected is read.  It
\* is set: the attempt count and the delay are reset and the loop continues.
MonitorReconnected ==
    /\ client.monitor_pc = "wait_connected"
    /\ client.connected
    /\ client' = [client EXCEPT !.attempt = 0, !.delay = InitialDelay,
                                !.monitor_pc = "loop"]
    /\ last' = [op |-> "reconnected"]
    /\ UNCHANGED <<clips, sent, ctx, now, seq, dev, session, tracks, devices>>

\* It is not set, after the ten seconds of the wait: the attempt has failed.
MonitorAttemptFailed ==
    /\ client.monitor_pc = "wait_connected"
    /\ ~client.connected
    /\ client' = [client EXCEPT !.monitor_pc = "backoff"]
    /\ last' = [op |-> "attempt_failed"]
    /\ UNCHANGED <<clips, sent, ctx, now, seq, dev, session, tracks, devices>>

\* run(): time.sleep(delay) has returned and the delay grows, up to max_delay.
MonitorBackoff ==
    /\ client.monitor_pc = "backoff"
    /\ client' = [client EXCEPT !.delay = IF (@ * 3) \div 2 < MaxDelay
                                          THEN (@ * 3) \div 2 ELSE MaxDelay,
                                !.monitor_pc = "loop"]
    /\ last' = [op |-> "backoff", slept |-> client.delay]
    /\ UNCHANGED <<clips, sent, ctx, now, seq, dev, session, tracks, devices>>

\* _on_open of the connection app.ws refers to, on that connection's thread.
OnOpen ==
    /\ client.ws = "connecting"
    /\ client' = [client EXCEPT !.ws = "open", !.connected = TRUE]
    /\ last' = [op |-> "on_open"]
    /\ UNCHANGED <<clips, sent, ctx, now, seq, dev, session, tracks, devices>>

\* The connection app.ws refers to fails or is ended by the server.
ConnectionLost ==
    /\ client.ws \in {"connecting", "open"}
    /\ client' = [client EXCEPT !.ws = "closing"]
    /\ last' = [op |-> "connection_lost"]
    /\ UNCHANGED <<clips, sent, ctx, now, seq, dev, session, tracks, devices>>

\* _on_close of the connection app.ws refers to.
OnClose ==
    /\ client.ws = "closing"
    /\ ~client.lock
    /\ client' = [client EXCEPT !.ws = "closed", !.connected = FALSE]
    /\ last' = [op |-> "on_close", replaced |-> FALSE]
    /\ UNCHANGED <<clips, sent, ctx, now, seq, dev, session, tracks, devices>>

\* _on_close of a connection that was closed by _create_new_connection or
\* by disconnect().
OnCloseReplaced ==
    /\ client.replaced > 0
    /\ ~client.lock
    /\ client' = [client EXCEPT !.replaced = @ - 1, !.connected = FALSE]
    /\ last' = [op |-> "on_close", replaced |-> TRUE]
    /\ UNCHANGED <<clips, sent, ctx, now, seq, dev, session, tracks, devices>>

\* disconnect() up to its with block: the monitor is told to stop.
DisconnectStopsMonitor ==
    /\ client.main_pc = "running"
    /\ client' = [client EXCEPT !.should_reconnect = FALSE, !.main_pc = "disconnecting"]
    /\ last' = [op |-> "monitor_stop"]
    /\ UNCHANGED <<clips, sent, ctx, now, seq, dev, session, tracks, devices>>

\* disconnect() from there: under the lock the connection is closed, ws set
\* to None and connected cleared, and disconnect() returns.
DisconnectCloses ==
    /\ client.main_pc = "disconnecting"
    /\ ~client.lock
    /\ PendingAfterClose(client) <= MaxPendingCloses
    /\ client' = [client EXCEPT !.replaced = PendingAfterClose(client), !.ws = "none",
                                !.connected = FALSE, !.main_pc = "disconnected"]
    /\ last' = [op |-> "disconnect"]
    /\ UNCHANGED <<clips, sent, ctx, now, seq, dev, session, tracks, devices>>

NextClient ==
    \/ MonitorLoopTest
    \/ MonitorCountAttempt
    \/ CreateNewConnectionBegin
    \/ CreateNewConnectionEnd
    \/ MonitorReconnected
    \/ MonitorAttemptFailed
    \/ MonitorBackoff
    \/ OnOpen
    \/ ConnectionLost
    \/ OnClose
    \/ OnCloseReplaced
    \/ DisconnectStopsMonitor
    \/ DisconnectCloses

SpecClient == InitServer /\ [][NextClient]_vars

\* The same, with start() called again after a stop().
NextThreads ==
    \/ NextStop
    \/ StartCall

SpecThreads == InitServer /\ [][NextThreads]_vars

\* The processing loop of a sequencer without a session against the clock:
\* a pass takes no time, less than a slice duration, exactly one, or more.
ElapsedArgs == 0 .. (Cadence + 1)

NextLoop ==
    \/ \E elapsed \in ElapsedArgs : LoopIteration(elapsed)
    \/ StopCall
    \/ ThreadExit
    \/ \E timed_out \in BOOLEAN : StopReturn(timed_out)
    \/ StartCall

SpecLoop == InitServer /\ [][NextLoop]_vars

\* A sequencer without a session yet, under the messages of a client and
\* direct calls of new_session.
NextCommands ==
    \/ \E address \in CommandAddresses :
          \E params \in ParamLists(address) : HandleMessage(address, params)
    \/ \E a \in SizeArgs, b \in SizeArgs : CallNewSession(a, b)

SpecCommands == InitServer /\ [][NextCommands]_vars

\* The tracks of a session sending messages to the devices the manager found,
\* each of which opened or not, while the tracks are given device names and the
\* devices are opened and closed.
InitRouting ==
    /\ clips = SessionClips(NumTracks, NumScenes)
    /\ sent = <<>>
    /\ now = 0
    /\ ctx = NewMusicalContext(0)
    /\ seq = NewSequencer(TRUE)
    /\ dev = NewHardwareDevice("output", 1)
    /\ session = NewSession(NumTracks, NumScenes)
    /\ tracks = SessionTracks(NumTracks)
    /\ \E opened \in SUBSET DeviceNames : devices = LoadDeviceConfiguration(opened)
    /\ client = NewControllerApp
    /\ last = [op |-> "new_session"]

NextRouting ==
    \/ \E t \in Tracks, n \in TrackDeviceArgs : SetOutputDevice(t, n)
    \/ \E t \in Tracks, f \in BOOLEAN :
          SendMidiMessage(t, NoteOn(SequenceEvent(0, 60, 100, 1, 1), 1), f)
    \/ \E n \in DeviceNames, b \in BOOLEAN : OpenDevice(n, b)
    \/ \E n \in DeviceNames : CloseDevice(n)

SpecRouting == InitRouting /\ [][NextRouting]_vars

\* The processing thread sending the note-on and the note-off of an event of
\* the first track while another thread gives that track device names and
\* opens and closes devices.
NextNotes ==
    \/ SendNoteOnForEvent(0)
    \/ SendNoteOffForEvent
    \/ \E n \in TrackDeviceArgs : SetOutputDevice(0, n)
    \/ \E n \in DeviceNames, b \in BOOLEAN : OpenDevice(n, b)
    \/ \E n \in DeviceNames : CloseDevice(n)

SpecNotes == InitRouting /\ [][NextNotes]_vars

\* An output device under the installation of encoder mappings, with control
\* changes coming in and going out in between.
NextMapping ==
    \/ \E mapping \in Mappings : SetControlChangeMapping(mapping)
    \/ \E v \in CcValues : HandleControlChange(7, v)

SpecMapping == Init /\ [][NextMapping]_vars

(************************* what the last call did **************************)
\* The clip the last call was made on, as it is now.
LastClip == clips[last.track][last.scene]

LastSliceLength == last.end_beats - last.start_beats

\* The last call was process_slice on a clip that was playing.
ProcessedPlaying == last.op = "process_slice" /\ last.pre_playing

\* The clip-local end of the window of the last process_slice call.
LocalEnd == last.pre_playhead + LastSliceLength

NoteOnsFor(i) == {k \in DOMAIN sent : sent[k].type = "note_on" /\ sent[k].event = i}

NoteOffsFor(i) == {k \in DOMAIN sent : sent[k].type = "note_off" /\ sent[k].event = i}

AlwaysFires(i) == LastClip.sequence_events[i].chance = ChanceScale

\* Event i intersects the window [window_start, window_end) by the test of the
\* slice algorithm, its end wrapped at the clip length when the clip wraps.
IntersectsWindow(i, window_start, window_end) ==
    LET event == LastClip.sequence_events[i]
        event_end == event.timestamp + event.duration
        wrapped_end == IF LastClip.wrap_events_across_loop /\ event_end > LastClip.length_beats
                       THEN event_end % LastClip.length_beats
                       ELSE event_end
    IN  ~(wrapped_end <= window_start \/ event.timestamp >= window_end)

(********************************* claims **********************************)
\* C1: in every state reachable by Track.play_clip, Session.play_scene,
\* Track.stop_all_clips, Session.stop_all_clips and Track.process_slice, each
\* track has at most one clip whose is_playing flag is true.
C1_AtMostOnePlayingPerTrack ==
    \A t \in Tracks : Cardinality({c \in Scenes : clips[t][c].is_playing}) <= 1

\* C2: after a process_slice call with a non-negative slice length (of any size)
\* on a playing clip with wrap = true, playhead_position_beats is in
\* [0, length_beats).
C2_WrappedPlayheadInRange ==
    (ProcessedPlaying /\ LastClip.wrap_events_across_loop)
        => /\ 0 <= LastClip.playhead_position_beats
           /\ LastClip.playhead_position_beats < LastClip.length_beats

\* C2 witness: a slice longer than the clip has been processed by a wrapping,
\* playing clip whose playhead was not at the start.
C2_Witness ==
    /\ ProcessedPlaying
    /\ LastClip.wrap_events_across_loop
    /\ LastClip.is_playing
    /\ last.pre_playhead > 0
    /\ LastSliceLength > LastClip.length_beats

\* C3: process_slice(start_beats, end_beats) on a playing clip fires the events
\* that intersect the clip-local window [playhead, playhead + (end_beats -
\* start_beats)) taken before the playhead is advanced (here for a window that
\* ends inside the clip), so that start_beats and end_beats matter only through
\* their difference.
C3_FiresByClipLocalWindow ==
    (ProcessedPlaying /\ LocalEnd < LastClip.length_beats)
        => \A i \in 1 .. Len(LastClip.sequence_events) :
              AlwaysFires(i) =>
                  (NoteOnsFor(i) # {} <=> IntersectsWindow(i, last.pre_playhead, LocalEnd))

\* C4: when wrap = true and playhead + slice_len exceeds length_beats,
\* process_slice fires every chance-1.0 event intersecting [playhead, length_beats)
\* or [0, playhead + slice_len - length_beats), and no event intersecting neither
\* (stated here for calls whose start_beats equals the clip's playhead).
C4_FiresInBothSubWindows ==
    (/\ ProcessedPlaying
     /\ last.start_beats = last.pre_playhead
     /\ LastClip.wrap_events_across_loop
     /\ last.pre_playhead < LastClip.length_beats
     /\ LocalEnd > LastClip.length_beats)
        => \A i \in 1 .. Len(LastClip.sequence_events) :
              AlwaysFires(i) =>
                  (NoteOnsFor(i) # {}
                      <=> \/ IntersectsWindow(i, last.pre_playhead, LastClip.length_beats)
                          \/ IntersectsWindow(i, 0, LocalEnd - LastClip.length_beats))

\* C5: the note-off of a note-on emitted at clock beat b (the start of the slice
\* that fired it) for an event of duration d > 0 is emitted in no tick whose slice
\* ends before b + d.
C5_NoteOffNotBeforeDue ==
    last.op = "process_slice"
        => \A k \in DOMAIN sent :
              sent[k].type = "note_off"
                  => last.start_beats + LastClip.sequence_events[sent[k].event].duration
                         <= last.end_beats

C7_ZeroChanceNeverFires ==
    last.op = "process_slice"
        => \A k \in DOMAIN sent : LastClip.sequence_events[sent[k].event].chance # 0

\* C8: a process_slice call on a playing clip with wrap = false leaves the clip
\* stopped with its playhead at 0 when playhead + slice_len >= length_beats, and
\* playing when playhead + slice_len < length_beats.
C8_NoWrapStopsAtEnd ==
    (ProcessedPlaying /\ ~LastClip.wrap_events_across_loop)
        => IF LocalEnd >= LastClip.length_beats
           THEN ~LastClip.is_playing /\ LastClip.playhead_position_beats = 0
           ELSE LastClip.is_playing

\* C8 witness: a non-wrapping clip has been stopped by a slice that ended exactly
\* at its length.
C8_Witness ==
    /\ ProcessedPlaying
    /\ ~LastClip.wrap_events_across_loop
    /\ last.pre_playhead > 0
    /\ LocalEnd = LastClip.length_beats
    /\ ~LastClip.is_playing

\* C9: in the process_slice call that reaches the end of a playing clip with
\* wrap = false, the chance-1.0 events intersecting the final window
\* [playhead, length_beats) are fired.
C9_FinalWindowFired ==
    (/\ ProcessedPlaying
     /\ ~LastClip.wrap_events_across_loop
     /\ LocalEnd >= LastClip.length_beats)
        => \A i \in 1 .. Len(LastClip.sequence_events) :
              (AlwaysFires(i) /\ IntersectsWindow(i, last.pre_playhead, LastClip.length_beats))
                  => NoteOnsFor(i) # {}

\* C10: a clip's is_recording flag implies its is_playing flag.
C10_RecordingImpliesPlaying ==
    \A t \in Tracks, c \in Scenes : clips[t][c].is_recording => clips[t][c].is_playing

\* The clips of the track of the last play_clip call, other than its argument,
\* that were playing when it was called.
OthersPlayingBefore ==
    {c \in Scenes : c # last.scene /\ last.pre_clips[last.track][c].is_playing}

\* The last call was Track.play_clip(i) with a valid i while exactly one other
\* clip of the track was playing.
PlayedClipOverOneOther ==
    last.op = "play_clip" /\ last.scene \in Scenes /\ Cardinality(OthersPlayingBefore) = 1

SameTransport(a, b) ==
    /\ a.is_playing = b.is_playing
    /\ a.is_recording = b.is_recording
    /\ a.playhead_position_beats = b.playhead_position_beats

C12_SessionNotReplacedUnderIteration ==
    seq.pc = "tracks" => ~seq.stale

\* C13: every state snapshot sent to a client is taken at the end of a completed
\* tick: none shows the playhead of the musical context advanced for a tick
\* that some track has not been processed for.
C13_SnapshotOfCompletedTick ==
    last.snapshot.playhead_position_beats # last.snapshot.tick_start_beats
        => last.snapshot.pending_tracks = {}

\* C14: a command is never applied after the slice range of the current tick
\* has been computed and before that tick's process_slice calls have finished.
C14_CommandNotAppliedInsideTick ==
    last.op \in Addresses => ~last.range_pending

TempoCalls == {"set_bpm", "session_set_bpm", "/transport/setBpm"}

MeterCalls == {"set_meter", "session_set_meter", "/transport/setMeter"}

\* C15: bpm > 0 and meter > 0 in every reachable state of the musical context:
\* set_bpm(x) and set_meter(x) with x <= 0, called directly, through the session
\* or by '/transport/setBpm' and '/transport/setMeter', leave every field of the
\* context as it was.
C15_TempoAndMeterPositive ==
    /\ ctx.bpm > 0
    /\ ctx.meter > 0
    /\ (last.op \in TempoCalls \cup MeterCalls /\ last.arg <= 0) => ctx = last.pre

\* C15 witness: '/transport/setBpm' with a negative tempo has been handled by a
\* context whose tempo and meter had been changed before.
C15_Witness ==
    /\ last.op = "/transport/setBpm"
    /\ last.arg < 0
    /\ ctx.bpm # DefaultBpm
    /\ ctx.meter # DefaultMeter

\* C16: while the context stays playing its playhead never decreases, whatever
\* operation is called and whatever the clock reads, and every
\* get_current_slice_range call returns (start, end) with start <= end.
C16_PlayheadNeverDecreasesWhilePlaying ==
    (last.op # "new" /\ last.pre.is_playing /\ ctx.is_playing)
        => /\ ctx.playhead_position_beats >= last.pre.playhead_position_beats
           /\ last.op = "get_current_slice_range" => last.ret[1] <= last.ret[2]

\* C17: get_current_slice_range on a context that is not playing returns (p, p)
\* for its playhead p and changes no field; set_playing(True) changes only
\* is_playing and the wall-clock reference; and the get_current_slice_range call
\* that follows set_playing(True) adds to the playhead the beats of the time
\* since that call alone, none of the time before it.
C17_StoppedTimeNotAdded ==
    /\ (last.op = "get_current_slice_range" /\ ~last.pre.is_playing)
          => /\ last.ret = <<last.pre.playhead_position_beats,
                             last.pre.playhead_position_beats>>
             /\ ctx = last.pre
    /\ (last.op = "set_playing" /\ last.arg = TRUE)
          => ctx = [last.pre EXCEPT !.is_playing = TRUE, !.last_update_time = last.at]
    /\ (last.op = "get_current_slice_range" /\ last.resumed_at # NoTime)
          => /\ last.ret[1] = last.pre.playhead_position_beats
             /\ last.ret[2] = ctx.playhead_position_beats
             /\ last.ret[2] - last.ret[1]
                    = ((last.at - last.resumed_at) * ctx.bpm) \div SecondsPerMinute

\* C17 witness: a context stopped for a while has been set playing, and the
\* get_current_slice_range call after it, later still, has advanced the playhead.
C17_Witness ==
    /\ last.op = "get_current_slice_range"
    /\ last.resumed_at # NoTime
    /\ last.stopped_seconds > 0
    /\ last.at > last.resumed_at
    /\ last.ret[2] > last.ret[1]

\* C18: every value stored in the device's CC cache is in [0, 127], whatever
\* integers set_midi_cc_parameter_value and handle_control_change are called
\* with, and get_current_midi_cc_parameter_value(cc) returns the value stored
\* for cc, or 0 if none is.
C18_CcCacheInMidiRange ==
    /\ \A cc \in DOMAIN dev.midi_cc_values : dev.midi_cc_values[cc] \in 0 .. MidiDataMax
    /\ last.op = "get_current_midi_cc_parameter_value" => last.ret \in 0 .. MidiDataMax

\* C19: set_midi_cc_parameter_value(cc, value) on a device whose channel is in
\* [1, 16] never raises, for any cc and value, and sends no control-change
\* message with a control number or value outside [0, 127].
C19_SetCcNeverRaises ==
    (last.op = "set_midi_cc_parameter_value" /\ dev.midi_channel \in 1 .. 16)
        => /\ ~last.raised
           /\ \A k \in DOMAIN sent :
                 sent[k].control \in 0 .. MidiDataMax /\ sent[k].value \in 0 .. MidiDataMax

\* C20: the MIDI channel of a hardware device is in [1, 16] in every reachable
\* state, whatever channel it was constructed with or set to.
C20_ChannelInRange ==
    dev.midi_channel \in 1 .. 16

\* C21: after set_control_change_mapping(mapping), encoder k is mapped exactly
\* when mapping[k] >= 0, and then to mapping[k]; an encoder the list does not
\* reach or gives a negative number is unmapped, whatever was installed before,
\* and the cache of CC values is as it was.
C21_MappingInstalledAnew ==
    last.op = "set_control_change_mapping" =>
        /\ \A k \in 0..(NumEncoders - 1) :
              LET given == k < Len(last.mapping) /\ last.mapping[k + 1] >= 0
              IN  /\ (k \in DOMAIN dev.control_change_mapping) = given
                  /\ given => dev.control_change_mapping[k] = last.mapping[k + 1]
        /\ DOMAIN dev.control_change_mapping \subseteq 0..(NumEncoders - 1)
        /\ dev.midi_cc_values = last.pre.midi_cc_values

\* A mapping is installed that unmaps an encoder the previous one mapped, over
\* a cache that holds a value.
C21_Witness ==
    /\ last.op = "set_control_change_mapping"
    /\ \E k \in DOMAIN last.pre.control_change_mapping :
          k \notin DOMAIN dev.control_change_mapping
    /\ DOMAIN dev.control_change_mapping # {}
    /\ DOMAIN dev.midi_cc_values # {}
\* C22: open() returns True or False, and whenever it returns False the device
\* is not open afterwards, whether it was open before the call or not.
C22_FailedOpenLeavesClosed ==
    last.op = "open" =>
        /\ last.ret \in {0, 1}
        /\ ~last.raised
        /\ last.ret = 0 => ~dev.is_open

\* C23: open() on an open device leaves is_open and the port held as they were
\* and has no further port opened, and close() on a closed device leaves
\* is_open and the port held as they were.
C23_OpenAndCloseIdempotent ==
    /\ (last.op = "open" /\ last.pre_is_open) =>
            /\ dev.is_open
            /\ dev.midi_port = last.pre_port
            /\ dev.ports_opened = last.pre_ports_opened
    /\ (last.op = "close" /\ ~last.pre_is_open) =>
            /\ ~dev.is_open
            /\ dev.midi_port = last.pre_port
            /\ dev.ports_opened = last.pre_ports_opened
\* C24: send_midi_message never raises and sends to no device but the one the
\* track is bound to at the call (reached tells, for each device, whether its
\* port was sent the message); a message that reaches no device, because the
\* name resolves to no output device or the device is closed, is counted on the
\* track, so the track is not left as it was before the call.
C24_DroppedMessageCounted ==
    last.op = "send_midi_message" =>
        /\ ~last.raised
        /\ \A n \in DeviceNames :
              last.reached[n] => n = tracks[last.track].output_hardware_device_name
        /\ (\A n \in DeviceNames : ~last.reached[n])
              => tracks[last.track] # last.pre_track
\* C25: a session that exists has as many tracks as its num_tracks says, and
\* each of its tracks has as many clips as its num_scenes says, whatever
\* integers new_session or '/settings/new' was given.
C25_SessionHasItsSizes ==
    seq.session =>
        /\ Cardinality(DOMAIN clips) = session.num_tracks
        /\ Cardinality(DOMAIN tracks) = session.num_tracks
        /\ \A t \in DOMAIN clips : Cardinality(DOMAIN clips[t]) = session.num_scenes
\* A command is malformed when a parameter its address needs is missing or is
\* not a number of the kind needed.
Malformed(address, params) ==
    CASE address = "/settings/new" ->
           \/ Len(params) < 2
           \/ \E k \in 1..2 : IntOf(params[k]) = <<>>
      [] address = "/transport/setBpm" ->
           Len(params) < 1 \/ FloatOf(params[1]) = <<>>
      [] address \in {"/transport/setMeter", "/scene/play"} ->
           Len(params) < 1 \/ IntOf(params[1]) = <<>>
      [] address = "/track/setOutputHardwareDevice" -> Len(params) < 2
      [] OTHER -> FALSE

\* C27: a command with an unknown address, or with a parameter missing or
\* unparseable, leaves session, tracks, clips, musical context and devices as
\* they were, and a well-formed command on the same connection right after a
\* rejected one is applied: '/settings/new' makes the session it names and
\* '/transport/setBpm' with a positive value sets the tempo of the session.
C27_RejectedCommandChangesNothing ==
    last.op = "handle_message" =>
        /\ (last.address = "/unknown" \/ Malformed(last.address, last.params))
               => SequencerState = last.pre
        /\ (last.after_error /\ ~Malformed(last.address, last.params)) =>
               /\ last.address = "/settings/new" =>
                      /\ seq.session
                      /\ session = NewSession(IntOf(last.params[1])[1],
                                              IntOf(last.params[2])[1])
               /\ (last.address = "/transport/setBpm" /\ seq.session
                       /\ FloatOf(last.params[1])[1] > 0) =>
                      ctx.bpm = FloatOf(last.params[1])[1]

\* '/settings/new 1' arrives, right after another rejected command, at a
\* sequencer whose session has two tracks and is playing a scene.
C27_Witness ==
    /\ last.op = "handle_message"
    /\ last.address = "/settings/new"
    /\ last.params = <<"1">>
    /\ last.after_error
    /\ seq.session
    /\ session.num_tracks = 2
    /\ \E t \in DOMAIN clips : \E c \in DOMAIN clips[t] : clips[t][c].is_playing
\* C26: play_scene(i) and play_clip(i) with i outside [0, num_scenes), negative
\* i included, leave every clip of the session as it was: no clip starts, stops
\* or moves its playhead, and the clip that is playing keeps playing.
C26_InvalidIndexChangesNothing ==
    (last.op \in {"play_clip", "play_scene"} /\ last.scene \notin Scenes)
        => clips = last.pre_clips

\* play_clip(-1) on a track whose clip is playing and recording, with its
\* playhead past the start.
C26_Witness ==
    /\ last.op = "play_clip"
    /\ last.scene < 0
    /\ \E c \in Scenes :
          /\ clips[last.track][c].is_playing
          /\ clips[last.track][c].is_recording
          /\ clips[last.track][c].playhead_position_beats > 0
\* C28: when stop() has returned, with the processing thread joined or the
\* join timed out, no hardware device of the manager is open.
C28_DevicesClosedAfterStop ==
    last.op = "stop" => \A n \in DOMAIN devices : ~devices[n].is_open
\* The last process_slice call was on a playing, wrapping clip whose playhead
\* was inside the clip, with a slice longer than nothing and no longer than
\* the clip.
SliceWithinOneLoop ==
    /\ ProcessedPlaying
    /\ LastClip.wrap_events_across_loop
    /\ 0 <= last.pre_playhead
    /\ last.pre_playhead < LastClip.length_beats
    /\ 0 < LastSliceLength
    /\ LastSliceLength <= LastClip.length_beats

\* C29: for a playing clip with wrap = true, length L, playhead p in [0, L) and
\* a slice of length d with 0 < d <= L, process_slice leaves the clip playing
\* with playhead p + d - L when p + d > L, and with playhead p + d when
\* p + d < L.
C29_WrapKeepsTheRemainder ==
    SliceWithinOneLoop =>
        /\ LocalEnd > LastClip.length_beats =>
               /\ LastClip.is_playing
               /\ LastClip.playhead_position_beats = LocalEnd - LastClip.length_beats
        /\ LocalEnd < LastClip.length_beats =>
               LastClip.playhead_position_beats = LocalEnd

\* A slice has carried the playhead of a wrapping clip over the end of the clip
\* to a position past its start.
C29_Witness ==
    /\ SliceWithinOneLoop
    /\ LocalEnd > LastClip.length_beats
    /\ LastClip.is_playing
    /\ LastClip.playhead_position_beats > 0
    /\ LastClip.playhead_position_beats = LocalEnd - LastClip.length_beats
\* C30: every event a clip holds has start >= 0, note and velocity in
\* [0, 127], duration > 0, channel in [1, 16] and chance in [0, 1], and no
\* note-on with note, velocity or channel outside the MIDI range is sent.
C30_EventsInMidiRange ==
    /\ \A t \in DOMAIN clips : \A c \in DOMAIN clips[t] :
          \A i \in DOMAIN clips[t][c].sequence_events :
             LET event == clips[t][c].sequence_events[i]
             IN  /\ event.timestamp >= 0
                 /\ event.note \in 0 .. MidiDataMax
                 /\ event.velocity \in 0 .. MidiDataMax
                 /\ event.duration > 0
                 /\ event.channel \in 1 .. 16
                 /\ event.chance \in 0 .. ChanceScale
    /\ \A k \in DOMAIN sent :
          sent[k].type = "note_on" =>
             /\ sent[k].note \in 0 .. MidiDataMax
             /\ sent[k].velocity \in 0 .. MidiDataMax
             /\ sent[k].channel \in 0 .. 15
(* C31: after quantize_events(step) with step > 0 the clip's quantization_step
   is step and every event starts at round(old_start / step) * step, a whole
   multiple of step no further than step / 2 from its old start; the events
   and their other fields, and the clip's other fields, are as before, and
   quantizing again by the same step changes nothing. *)
Abs(x) == IF x < 0 THEN 0 - x ELSE x

QuantizedBy(step) == last.op = "quantize_events" /\ last.step = step

PreClip == last.pre_clips[last.track][last.scene]

C31_QuantizeSnapsToNearestStep ==
    (last.op = "quantize_events" /\ last.step > 0) =>
        LET old == PreClip
            new == LastClip
        IN  /\ ~last.raised
            /\ new.quantization_step = last.step * QuarterBeatsPerBeat
            /\ [new EXCEPT !.sequence_events = <<>>, !.quantization_step = 0]
                 = [old EXCEPT !.sequence_events = <<>>, !.quantization_step = 0]
            /\ Len(new.sequence_events) = Len(old.sequence_events)
            /\ \A i \in 1 .. Len(old.sequence_events) :
                   LET o == old.sequence_events[i]
                       n == new.sequence_events[i]
                   IN  /\ n.timestamp = PyRound(o.timestamp, last.step) * last.step
                       /\ \E k \in (0 - 4) .. 4 : n.timestamp = k * last.step
                       /\ 2 * Abs(n.timestamp - o.timestamp) <= last.step
                       /\ [n EXCEPT !.timestamp = 0] = [o EXCEPT !.timestamp = 0]
            /\ ClipQuantizeEvents(new, last.step) = [clip |-> new, raised |-> FALSE]
            /\ \A t \in Tracks, c \in Scenes :
                   (t # last.track \/ c # last.scene) => clips[t][c] = last.pre_clips[t][c]

\* An event that started two beats in now starts at three, the nearest
\* multiple of a three-beat step.
C31_Witness ==
    /\ QuantizedBy(3)
    /\ Len(PreClip.sequence_events) = 1
    /\ PreClip.sequence_events[1].timestamp = 2
    /\ LastClip.sequence_events[1].timestamp = 3

(* C32: a clip's length_beats and quantization_step are positive in every
   reachable state, whatever numbers set_length and quantize_events are
   given. *)
C32_LengthAndStepStayPositive ==
    \A t \in Tracks, c \in Scenes :
        clips[t][c].length_beats > 0 /\ clips[t][c].quantization_step > 0

(* C33: the playhead of a clip that wraps is at or after 0 and before
   length_beats in every reachable state. *)
C33_PlayheadInsideTheLoop ==
    \A t \in Tracks, c \in Scenes :
        clips[t][c].wrap_events_across_loop =>
            /\ clips[t][c].playhead_position_beats >= 0
            /\ clips[t][c].playhead_position_beats < clips[t][c].length_beats

(* C36: a playing clip that wraps sends at most one note-on for an event in
   one pass of its loop: when two process_slice calls follow one another on
   adjoining slices that are not empty, and the second does not reach the end
   of the loop, no event has a note-on in both. *)
SentNoteOnFor(messages, i) ==
    \E k \in DOMAIN messages : messages[k].type = "note_on" /\ messages[k].event = i

NextSliceOfSamePass ==
    /\ last.op = "process_slice" /\ last.pre_playing
    /\ last'.op = "process_slice" /\ last'.pre_playing
    /\ last'.track = last.track /\ last'.scene = last.scene
    /\ last.start_beats < last.end_beats
    /\ last'.start_beats = last.end_beats
    /\ last'.start_beats < last'.end_beats
    /\ clips'[last'.track][last'.scene].wrap_events_across_loop
    /\ last'.pre_playhead + (last'.end_beats - last'.start_beats)
           < clips'[last'.track][last'.scene].length_beats

C36_OneNoteOnPerPass ==
    [][NextSliceOfSamePass =>
          \A i \in 1 .. MaxEvents : ~(SentNoteOnFor(sent, i) /\ SentNoteOnFor(sent', i))]_vars

(* C34: every pass of the processing loop starts on a tick boundary, a whole
   number of slice durations after the loop's first pass, also after a pass
   that took longer than a slice duration. *)
C34_WakesOnTickBoundaries == seq.loop_time % Cadence = 0

(* C38: at most one thread is inside _processing_loop. *)
C38_OneProcessingThread == seq.threads <= 1

(* C35: the monitor never counts more than max_attempts attempts, its delay
   never exceeds max_delay, and while it waits for the end of a connection
   that is open its attempt count is 0 and its delay is initial_delay. *)
C35_AttemptsBoundedAndReset ==
    /\ client.monitor_pc \in {"attempt", "creating", "wait_connected", "backoff"}
           => client.attempt <= MaxAttempts
    /\ client.delay <= MaxDelay
    /\ (client.monitor_pc = "wait_disconnect" /\ client.ws = "open" /\ client.connected)
           => (client.attempt = 0 /\ client.delay = InitialDelay)

(* C39: once disconnect() has returned, app.ws is None. *)
C39_NoConnectionAfterDisconnect ==
    client.main_pc = "disconnected" => client.ws = "none"

(* C40: while the connection app.ws refers to is open, app.connected is true. *)
C40_OpenMeansConnected ==
    client.ws = "open" => client.connected

(* C37: outside the sending of an event's two messages no device is left with
   a note sounding: every note-on a device was sent has been followed by the
   note-off on that device. *)
C37_NoNoteLeftSounding ==
    seq.pc # "note_off" => \A n \in DeviceNames : ~devices[n].sounding

====
